---- MODULE Spec2Model ----
(***************************************************************************)
(* A model of get_r2_data.py: the download pipeline (main, process_file,   *)
(* write_batch) and its pure helpers (is_valid_result, normalize_result).  *)
(*                                                                         *)
(* Decoded JSON is modelled as tagged records, one tag per Python type    *)
(* that json.loads produces:                                               *)
(*   None -> "null", bool -> "bool", int -> "int", float -> "float",       *)
(*   str -> "str", list -> "list", dict -> "dict".                         *)
(* A float is kept as its number of halves (h = 2 * value), so that 0.0,  *)
(* 0.5 and 1.0 are distinct from each other and from the ints 0 and 1.    *)
(* A dict is a function from its keys to values; the insertion order of   *)
(* the keys is not modelled.                                               *)
(***************************************************************************)
EXTENDS Integers, Sequences, FiniteSets, TLC

VARIABLES
    \* ---- the environment of a download run
    store,            \* the bucket: key (its listing position) -> object
    file_exists,      \* output_file.exists()
    file,             \* the lines of combined_data.jsonl, one record per line
    \* ---- main()
    pc,               \* position of the coordinator in main()
    json_files,       \* the enumerated .json keys, in listing order
    i,                \* the loop variable of the batch loop (0-based offset)
    task,             \* per key: state of its process_file task
    results,          \* per key: what its task returned (gathered per batch)
    in_flight,        \* number of tasks inside "async with semaphore"
    fetches,          \* per key: number of get_object calls made
    write_buffer,
    processed_count,
    error_count,
    errors,
    summary,          \* what the final summary printed
    \* ---- the pure helpers, applied to one drawn input
    probe,
    \* ---- the listing, page by page
    listed,           \* number of keys of the bucket the pages read so far hold
    \* ---- write_batch, call by call
    file_lock,        \* asyncio.Lock: TRUE while a call holds it
    writer,           \* per write_batch call: its position, batch and progress
    \* ---- the script: __main__ and filter_data
    args,             \* the parsed command line
    filtered,         \* the lines of filtered_data.jsonl
    \* ---- commit_on_chain.py
    commit            \* the state of one commit_to_chain call

vars == <<store, file_exists, file, pc, json_files, i, task, results,
          in_flight, fetches, write_buffer, processed_count, error_count,
          errors, summary, probe,
                   listed, file_lock, writer, args, filtered, commit>>

(***************************************************************************)
(* Bounds of the model.  batch_size, write_batch_size and                  *)
(* MAX_CONCURRENT_DOWNLOADS are the program's constants (100, 1000 and     *)
(* 1000 in the source) scaled down so that TLC can enumerate the runs;     *)
(* SummaryErrorLimit and SummarySample stand for the 10 and the 5 of the   *)
(* summary.  No property below depends on the scaled values.               *)
(***************************************************************************)
MaxKeys == 4
batch_size == 3
write_batch_size == 3
MAX_CONCURRENT_DOWNLOADS == 2
SummaryErrorLimit == 2
SummarySample == 1
MaxListLen == 2

REQUIRED_KEYS == {"version", "miner", "challenge", "response", "evaluation"}

----------------------------------------------------------------------------
(* JSON values *)

JNull == [t |-> "null"]
JBool(b) == [t |-> "bool", b |-> b]
JInt(n) == [t |-> "int", i |-> n]
JFloat(h) == [t |-> "float", h |-> h]
JStr(s) == [t |-> "str", s |-> s]
JList(a) == [t |-> "list", a |-> a]
JDict(f) == [t |-> "dict", f |-> f]

\* The outcome of an expression that raised (TypeError, AttributeError, ...).
Raise == [t |-> "raise"]

EmptyDict == JDict([k \in {} |-> JNull])

\* dict helpers: key in d, d[key] = v, del d[key]
Has(d, k) == k \in DOMAIN d.f
SetKey(d, k, v) == JDict([x \in (DOMAIN d.f) \cup {k} |-> IF x = k THEN v ELSE d.f[x]])
DelKey(d, k) == JDict([x \in (DOMAIN d.f) \ {k} |-> d.f[x]])

\* Python truthiness of a decoded value.
Truthy(v) ==
    CASE v.t = "null" -> FALSE
      [] v.t = "bool" -> v.b
      [] v.t = "int" -> v.i # 0
      [] v.t = "float" -> v.h # 0
      [] v.t = "str" -> v.s # ""
      [] v.t = "list" -> Len(v.a) > 0
      [] v.t = "dict" -> DOMAIN v.f # {}

\* The strings of the model are a name with at most one character around it,
\* which is enough to decide the substring test of Python's "in" on a str.
Affixes == {"", "-"}
StrContains(s, sub) == \E pre \in Affixes, post \in Affixes : s = pre \o sub \o post

\* Python's  k in x : "T", "F", or "E" when x does not support the test.
py_in(k, x) ==
    CASE x.t = "dict" -> IF k \in DOMAIN x.f THEN "T" ELSE "F"
      [] x.t = "list" -> IF \E n \in 1..Len(x.a) : x.a[n] = JStr(k) THEN "T" ELSE "F"
      [] x.t = "str" -> IF StrContains(x.s, k) THEN "T" ELSE "F"
      [] OTHER -> "E"

\* The order in which json_dumps writes the keys of a dict (a fixed order
\* standing for the insertion order, which the model does not keep).
KeyOrder == <<"version", "miner", "challenge", "response", "evaluation",
              "score", "extra", "extra_json", "chute", "chute_json",
              "env", "prompt", "model", "uid", "meta", "x">>

RECURSIVE json_dumps(_)
RECURSIVE DumpsList(_, _)
RECURSIVE DumpsDict(_, _, _)
DumpsList(a, n) ==
    IF n > Len(a) THEN ""
    ELSE (IF n > 1 THEN ", " ELSE "") \o json_dumps(a[n]) \o DumpsList(a, n + 1)
DumpsDict(f, n, first) ==
    IF n > Len(KeyOrder) THEN ""
    ELSE IF KeyOrder[n] \in DOMAIN f
         THEN (IF first THEN "" ELSE ", ") \o "\"" \o KeyOrder[n] \o "\": "
              \o json_dumps(f[KeyOrder[n]]) \o DumpsDict(f, n + 1, FALSE)
         ELSE DumpsDict(f, n + 1, first)
json_dumps(v) ==
    CASE v.t = "null" -> "null"
      [] v.t = "bool" -> IF v.b THEN "true" ELSE "false"
      [] v.t = "int" -> ToString(v.i)
      [] v.t = "float" -> ToString(v.h \div 2) \o (IF v.h % 2 = 0 THEN ".0" ELSE ".5")
      [] v.t = "str" -> "\"" \o v.s \o "\""
      [] v.t = "list" -> "[" \o DumpsList(v.a, 1) \o "]"
      [] v.t = "dict" -> "{" \o DumpsDict(v.f, 1, TRUE) \o "}"

\* json.loads(json.dumps(item)): a structural copy.  On a value that came out
\* of json.loads every type survives the round trip (str keys, int and float
\* kept apart, bool and None as themselves), so the copy is rebuilt per type.
RECURSIVE DeepCopy(_)
DeepCopy(v) ==
    CASE v.t = "list" -> JList([n \in 1..Len(v.a) |-> DeepCopy(v.a[n])])
      [] v.t = "dict" -> JDict([k \in DOMAIN v.f |-> DeepCopy(v.f[k])])
      [] OTHER -> v

----------------------------------------------------------------------------
(* normalize_result *)

\* The conversion of challenge.extra done in place: the string is stored back
\* under 'extra' and no extra_json is made.
NormChallengeInPlace(n) ==
    IF ~Has(n, "challenge") THEN n
    ELSE LET c == n.f["challenge"]
             r == py_in("extra", c)
         IN  IF r = "E" THEN Raise
             ELSE IF r = "F" THEN n
             ELSE IF c.t # "dict" THEN Raise
             ELSE SetKey(n, "challenge",
                         SetKey(c, "extra", JStr(json_dumps(c.f["extra"]))))

\* if 'challenge' in normalized and 'extra' in normalized['challenge']: ...
NormChallenge(n) ==
    IF ~Has(n, "challenge") THEN n
    ELSE LET c == n.f["challenge"]
             r == py_in("extra", c)
         IN  IF r = "E" THEN Raise
             ELSE IF r = "F" THEN n
             ELSE IF c.t # "dict" THEN Raise
             ELSE SetKey(n, "challenge",
                         DelKey(SetKey(c, "extra_json", JStr(json_dumps(c.f["extra"]))),
                                "extra"))

\* The conversion of evaluation.extra without the test on its truth value:
\* an extra_json is written whenever extra is there.
NormEvaluationAlways(n) ==
    IF n = Raise THEN Raise
    ELSE IF ~Has(n, "evaluation") THEN n
    ELSE LET e == n.f["evaluation"]
             r == py_in("extra", e)
         IN  IF r = "E" THEN Raise
             ELSE IF r = "F" THEN n
             ELSE IF e.t # "dict" THEN Raise
             ELSE SetKey(n, "evaluation",
                         DelKey(SetKey(e, "extra_json",
                                       JStr(json_dumps(e.f["extra"]))),
                                "extra"))

\* if (... 'extra' in normalized['evaluation'] and extra and extra != {}): ...
\* elif 'evaluation' in normalized and 'extra' in normalized['evaluation']: del
NormEvaluation(n) ==
    IF n = Raise THEN Raise
    ELSE IF ~Has(n, "evaluation") THEN n
    ELSE LET e == n.f["evaluation"]
             r == py_in("extra", e)
         IN  IF r = "E" THEN Raise
             ELSE IF r = "F" THEN n
             ELSE IF e.t # "dict" THEN Raise
             ELSE IF Truthy(e.f["extra"]) /\ e.f["extra"] # EmptyDict
                  THEN SetKey(n, "evaluation",
                              DelKey(SetKey(e, "extra_json",
                                            JStr(json_dumps(e.f["extra"]))),
                                     "extra"))
                  ELSE SetKey(n, "evaluation", DelKey(e, "extra"))

\* The conversion of miner.chute without  del normalized['miner']['chute'].
NormMinerNoDel(n) ==
    IF n = Raise THEN Raise
    ELSE IF ~Has(n, "miner") THEN n
    ELSE LET m == n.f["miner"]
             r == py_in("chute", m)
         IN  IF r = "E" THEN Raise
             ELSE IF r = "F" THEN n
             ELSE IF m.t # "dict" THEN Raise
             ELSE IF m.f["chute"] # JNull
                  THEN SetKey(n, "miner",
                              SetKey(m, "chute_json", JStr(json_dumps(m.f["chute"]))))
                  ELSE n

\* if 'miner' in normalized and 'chute' in normalized['miner'] and chute is not None
NormMiner(n) ==
    IF n = Raise THEN Raise
    ELSE IF ~Has(n, "miner") THEN n
    ELSE LET m == n.f["miner"]
             r == py_in("chute", m)
         IN  IF r = "E" THEN Raise
             ELSE IF r = "F" THEN n
             ELSE IF m.t # "dict" THEN Raise
             ELSE IF m.f["chute"] # JNull
                  THEN SetKey(n, "miner",
                              DelKey(SetKey(m, "chute_json",
                                            JStr(json_dumps(m.f["chute"]))),
                                     "chute"))
                  ELSE n

normalize_result(item) == NormMiner(NormEvaluation(NormChallenge(DeepCopy(item))))

----------------------------------------------------------------------------
(* is_valid_result *)

HasRequiredKeys(item) == item.t = "dict" /\ \A key \in REQUIRED_KEYS : Has(item, key)

\* is_valid_result with any(...) for all(...): one required key is enough.
is_valid_result_any(json_data) ==
    IF json_data.t = "list"
    THEN \E n \in 1..Len(json_data.a) :
            /\ json_data.a[n].t = "dict"
            /\ \E key \in REQUIRED_KEYS : Has(json_data.a[n], key)
    ELSE IF json_data.t = "dict"
    THEN \E key \in REQUIRED_KEYS : Has(json_data, key)
    ELSE FALSE

is_valid_result(json_data) ==
    IF json_data.t = "list"
    THEN \E n \in 1..Len(json_data.a) : HasRequiredKeys(json_data.a[n])
    ELSE IF json_data.t = "dict"
    THEN \A key \in REQUIRED_KEYS : Has(json_data, key)
    ELSE FALSE

----------------------------------------------------------------------------
(* process_file *)

\* The score test without  and score in [0, 1] : any number passes.
score_is_number(score) == score.t \in {"int", "float", "bool"}

\* isinstance(score, (int, float)) and score in [0, 1]  (a bool is an int)
score_is_valid(score) ==
    CASE score.t = "int" -> score.i \in {0, 1}
      [] score.t = "float" -> score.h \in {0, 2}
      [] score.t = "bool" -> TRUE
      [] OTHER -> FALSE

\* int(score)
int_of(score) ==
    CASE score.t = "int" -> score.i
      [] score.t = "float" -> score.h \div 2
      [] score.t = "bool" -> IF score.b THEN 1 ELSE 0

\* item.get('evaluation', {}).get('score'): None when there is no score,
\* AttributeError when the evaluation value has no .get (it is not a dict).
get_score(item) ==
    LET e == IF Has(item, "evaluation") THEN item.f["evaluation"] ELSE EmptyDict
    IN  IF e.t # "dict" THEN Raise
        ELSE IF Has(e, "score") THEN e.f["score"] ELSE JNull

\* The score check, coercion and normalisation of one item (lines 112-119 for
\* an element of a list, 123-130 for a single object): the record, "invalid"
\* when the score is refused, "raise" when an exception escapes.
ScoredItem(item) ==
    LET score == get_score(item)
    IN  IF score = Raise THEN [k |-> "raise"]
        ELSE IF ~score_is_valid(score) THEN [k |-> "invalid"]
        ELSE LET coerced == SetKey(item, "evaluation",
                                   SetKey(item.f["evaluation"], "score",
                                          JInt(int_of(score))))
                 n == normalize_result(coerced)
             IN  IF n = Raise THEN [k |-> "raise"] ELSE [k |-> "ok", rec |-> n]

\* for item in json_data: ... (lines 109-119), from element n with acc collected
RECURSIVE ListItems(_, _, _)
ListItems(a, n, acc) ==
    IF n > Len(a) THEN [k |-> "ok", items |-> acc]
    ELSE IF ~HasRequiredKeys(a[n]) THEN ListItems(a, n + 1, acc)
    ELSE LET r == ScoredItem(a[n])
         IN  IF r.k = "raise" THEN [k |-> "raise"]
             ELSE IF r.k = "invalid" THEN ListItems(a, n + 1, acc)
             ELSE ListItems(a, n + 1, Append(acc, r.rec))

\* The error strings process_file returns, by their fixed text and the key.
NoError == [kind |-> "None", key |-> 0]
Reason(kind, key) == [kind |-> kind, key |-> key]
ErrProcessing == "Error processing"
ErrEmpty == "Empty file"
ErrMissingKeys == "Invalid result (missing keys)"
ErrScore == "Invalid score value"
ErrDecode == "JSON decode error"

\* A return value  items, error  of process_file.
NoItems == [none |-> TRUE, v |-> <<>>]
Items(v) == [none |-> FALSE, v |-> v]
Result(items, error) == [items |-> items, error |-> error]

JSONDecodeError == [t |-> "JSONDecodeError"]

\* content.decode('utf-8').strip(): the text without the whitespace around it
strip(obj) == obj.core

\* json.loads(content_str): what the decoder yields for the stored text
json_loads(obj) == obj.decoded

\* The try block of process_file (lines 89-132, with the inner handler of
\* JSONDecodeError at 134-135): the pair it returns, or Raise when an
\* exception leaves it.
process_file_try(key, obj) ==
    IF obj.fetch # "ok" \/ ~obj.utf8
    THEN Raise
    ELSE IF strip(obj) = "[]" \/ strip(obj) = ""
    THEN Result(NoItems, Reason(ErrEmpty, key))
    ELSE LET json_data == json_loads(obj) IN
    IF json_data = JSONDecodeError
    THEN Result(NoItems, Reason(ErrDecode, key))
    ELSE IF ~is_valid_result(json_data)
    THEN Result(NoItems, Reason(ErrMissingKeys, key))
    ELSE IF json_data.t = "list"
    THEN LET l == ListItems(json_data.a, 1, <<>>)
         IN  IF l.k = "raise" THEN Raise ELSE Result(Items(l.items), NoError)
    ELSE LET r == ScoredItem(json_data)
         IN  IF r.k = "raise" THEN Raise
             ELSE IF r.k = "invalid" THEN Result(NoItems, Reason(ErrScore, key))
             ELSE Result(Items(<<r.rec>>), NoError)

\* process_file without its outer handler: the exception leaves the task.
process_file_unguarded(key, obj) == process_file_try(key, obj)

\* process_file once the semaphore is taken: the try block, and
\* except Exception as e: return None, f"Error processing {key}: {e}" (137-138)
process_file(key, obj) ==
    LET r == process_file_try(key, obj)
    IN  IF r = Raise THEN Result(NoItems, Reason(ErrProcessing, key)) ELSE r

----------------------------------------------------------------------------
(* The inputs the helpers are applied to *)

Absent == [t |-> "absent"]

\* A dict from the (key, value) pairs whose value is not Absent.
DictOf(pairs) ==
    LET present == {p \in pairs : p[2] # Absent}
    IN  JDict([k \in {p[1] : p \in present} |->
                  (CHOOSE p \in present : p[1] = k)[2]])

Nested == DictOf({<<"x", JInt(1)>>})

ScoreVals ==
    {JInt(0), JInt(1), JInt(2), JFloat(0), JFloat(2), JFloat(1), JStr("1"),
     JNull, JBool(TRUE), Absent}
BadScores == {JInt(2), JFloat(1), JStr("1"), JNull, Absent}

EvalExtras == {Absent, EmptyDict, Nested}

EvaluationVals ==
    {Absent, JNull, JStr("evaluation")}
    \cup {DictOf({<<"score", sc>>, <<"extra", ex>>}) : sc \in ScoreVals, ex \in EvalExtras}

ChallengeVals ==
    {Absent, JNull, JStr("-extra"), JList(<<>>),
     DictOf({<<"env", JStr("env")>>, <<"prompt", JStr("prompt")>>}),
     DictOf({<<"env", JStr("env")>>, <<"extra", Nested>>}),
     DictOf({<<"env", JStr("env")>>, <<"extra", EmptyDict>>}),
     DictOf({<<"env", JStr("env")>>, <<"meta", Nested>>})}

MinerVals ==
    {Absent,
     DictOf({<<"uid", JInt(1)>>, <<"model", JStr("model")>>}),
     DictOf({<<"uid", JInt(1)>>, <<"chute", JNull>>}),
     DictOf({<<"uid", JInt(1)>>, <<"chute", Nested>>})}

VersionVals == {Absent, JInt(1)}

Item(ver, mi, ch, ev) ==
    DictOf({<<"version", ver>>, <<"miner", mi>>, <<"challenge", ch>>,
            <<"response", DictOf({<<"response", JStr("response")>>})>>,
            <<"evaluation", ev>>})

ProbeItems ==
    {Item(ver, mi, ch, ev) :
        ver \in VersionVals, mi \in MinerVals, ch \in ChallengeVals,
        ev \in EvaluationVals}

\* A record with every required key, a flat challenge and miner, and the
\* given evaluation.
PlainItem(ev) ==
    Item(JInt(1), DictOf({<<"uid", JInt(1)>>, <<"model", JStr("model")>>}),
         DictOf({<<"env", JStr("env")>>, <<"prompt", JStr("prompt")>>}), ev)
Scored(sc) == PlainItem(DictOf({<<"score", sc>>}))

\* The elements the probed lists are made of.
ListElems ==
    {Item(JInt(1), DictOf({<<"uid", JInt(1)>>, <<"chute", Nested>>}),
          DictOf({<<"env", JStr("env")>>, <<"extra", Nested>>}),
          DictOf({<<"score", JInt(1)>>, <<"extra", Nested>>})),
     Scored(JFloat(0)),
     Scored(JFloat(1)),
     Scored(JStr("1")),
     PlainItem(JNull),
     Item(Absent, Absent, Absent, DictOf({<<"score", JInt(2)>>})),
     Item(JInt(1), Absent, JNull, DictOf({<<"score", JInt(1)>>})),
     JInt(5)}

RECURSIVE SeqsUpTo(_, _)
SeqsUpTo(S, n) ==
    IF n = 0 THEN {<<>>}
    ELSE LET shorter == SeqsUpTo(S, n - 1)
         IN  shorter \cup {Append(q, e) : q \in {x \in shorter : Len(x) = n - 1}, e \in S}

\* An object of the bucket: whether its key ends in .json, whether get_object
\* and read succeed, whether the bytes are UTF-8, the text (pad: it has
\* whitespace around its core) and what json.loads makes of the core.
Object(json, fetch, utf8, pad, core, decoded) ==
    [json |-> json, fetch |-> fetch, utf8 |-> utf8, pad |-> pad, core |-> core,
     decoded |-> decoded]
Doc(v) == Object(TRUE, "ok", TRUE, FALSE, json_dumps(v), v)
PaddedDoc(v) == Object(TRUE, "ok", TRUE, TRUE, json_dumps(v), v)
FetchError == Object(TRUE, "error", TRUE, FALSE, "", JSONDecodeError)
BadUtf8 == Object(TRUE, "ok", FALSE, FALSE, "", JSONDecodeError)
Blank(pad) == Object(TRUE, "ok", TRUE, pad, "", JSONDecodeError)
Malformed == Object(TRUE, "ok", TRUE, FALSE, "{\"version\": ", JSONDecodeError)
SpacedBrackets == Object(TRUE, "ok", TRUE, FALSE, "[ ]", JList(<<>>))

ProbeObjects ==
    {FetchError, BadUtf8, Blank(FALSE), Blank(TRUE), Malformed, SpacedBrackets,
     Doc(JInt(5)), Doc(JStr("version")), Doc(JNull), PaddedDoc(JList(<<>>))}
    \cup {Doc(it) : it \in ProbeItems}
    \cup {Doc(JList(a)) : a \in SeqsUpTo(ListElems, MaxListLen)}

----------------------------------------------------------------------------
(* The download run: main() *)

\* The objects a bucket of the run is filled with.
NotJson == Object(FALSE, "ok", TRUE, FALSE, "", JSONDecodeError)
OneRecord ==
    Doc(Item(JInt(1), DictOf({<<"uid", JInt(1)>>, <<"chute", Nested>>}),
             DictOf({<<"env", JStr("env")>>, <<"extra", Nested>>}),
             DictOf({<<"score", JFloat(2)>>, <<"extra", EmptyDict>>})))
TwoRecords == Doc(JList(<<Scored(JInt(0)), Scored(JBool(TRUE))>>))
AllBadScores == Doc(JList(<<Scored(JStr("1"))>>))
NullEvaluation == Doc(JList(<<Scored(JInt(1)), PlainItem(JNull)>>))
HalfScore == Doc(Scored(JFloat(1)))
MissingKeys == Doc(Item(Absent, Absent, Absent, DictOf({<<"score", JInt(2)>>})))
NullChallenge ==
    Doc(Item(JInt(1), DictOf({<<"uid", JInt(1)>>}), JNull,
             DictOf({<<"score", JInt(1)>>})))

\* Any mix of these on every key ...
BucketObjects ==
    {NotJson, FetchError, OneRecord, TwoRecords, AllBadScores, NullEvaluation}
\* ... and one key with any of these kinds of failure among keys that succeed.
FailingObjects ==
    {FetchError, BadUtf8, Blank(TRUE), Malformed, MissingKeys, HalfScore,
     NullChallenge}
Buckets ==
    UNION {[1..n -> BucketObjects] : n \in 0..MaxKeys}
    \cup UNION {{b \in [1..n -> FailingObjects \cup {OneRecord, TwoRecords}] :
                    Cardinality({k \in 1..n : b[k] \in FailingObjects}) = 1} :
                n \in 1..MaxKeys}

\* A line left in combined_data.jsonl by an earlier run.
PriorRecord == normalize_result(Scored(JInt(0)))

NoResult == Result(NoItems, Reason("not returned", 0))
NoSummary == [printed |-> FALSE]
\* The script run without --filter; no commit_to_chain call.
NoArgs == [filter |-> FALSE]
NoCommit == [pc |-> "off"]
Keys == DOMAIN store

Min(a, b) == IF a < b THEN a ELSE b

Init ==
    /\ store \in Buckets
    /\ file_exists \in BOOLEAN
    /\ file = IF file_exists THEN <<PriorRecord>> ELSE <<>>
    /\ pc = "start"
    /\ json_files = <<>>
    /\ i = 0
    /\ task = [k \in Keys |-> "idle"]
    /\ results = [k \in Keys |-> NoResult]
    /\ in_flight = 0
    /\ fetches = [k \in Keys |-> 0]
    /\ write_buffer = <<>>
    /\ processed_count = 0
    /\ error_count = 0
    /\ errors = <<>>
    /\ summary = NoSummary
    /\ probe = [step |-> "off"]
    /\ listed = 0
    /\ file_lock = FALSE
    /\ writer = <<>>
    /\ args = NoArgs
    /\ filtered = <<>>
    /\ commit = NoCommit

\* if output_file.exists(): (line 154)
CheckExists ==
    /\ pc = "start"
    /\ pc' = IF file_exists THEN "prompt" ELSE "list"
    /\ UNCHANGED <<store, file_exists, file, json_files, i, task, results,
                   in_flight, fetches, write_buffer, processed_count,
                   error_count, errors, summary, probe,
                   listed, file_lock, writer, args, filtered, commit>>

\* response.lower()
lower(response) == IF response = "Y" THEN "y" ELSE response

\* The prompt with the unlink before the test of the answer.
PromptUnlinkFirst ==
    /\ pc = "prompt"
    /\ file_exists' = FALSE
    /\ file' = <<>>
    /\ \E response \in {"y", "Y", "n", ""} :
          pc' = IF lower(response) # "y" THEN "aborted" ELSE "list"
    /\ UNCHANGED <<store, json_files, i, task, results, in_flight, fetches,
                   write_buffer, processed_count, error_count, errors,
                   summary, probe, listed, file_lock, writer, args, filtered, commit>>

\* response = input(...); abort unless 'y', else unlink (lines 155-161)
Prompt ==
    /\ pc = "prompt"
    /\ \E response \in {"y", "Y", "n", ""} :
          IF lower(response) # "y"
          THEN /\ pc' = "aborted"
               /\ UNCHANGED <<file_exists, file>>
          ELSE /\ file_exists' = FALSE
               /\ file' = <<>>
               /\ pc' = "list"
    /\ UNCHANGED <<store, json_files, i, task, results, in_flight, fetches,
                   write_buffer, processed_count, error_count, errors,
                   summary, probe,
                   listed, file_lock, writer, args, filtered, commit>>

\* The keys among the first n of the listing that end in .json, in listing
\* order (lines 184-190).
RECURSIVE JsonKeys(_)
JsonKeys(n) ==
    IF n = 0 THEN <<>>
    ELSE IF store[n].json THEN Append(JsonKeys(n - 1), n) ELSE JsonKeys(n - 1)

ListKeys ==
    /\ pc = "list"
    /\ json_files' = JsonKeys(Cardinality(Keys))
    /\ listed' = Cardinality(Keys)
    /\ i' = 0
    /\ pc' = "loop"
    /\ UNCHANGED <<store, file_exists, file, task, results, in_flight, fetches,
                   write_buffer, processed_count, error_count, errors,
                   summary, probe, file_lock, writer, args, filtered, commit>>

\* batch_files = json_files[i:i + batch_size]
batch_files == SubSeq(json_files, i + 1, Min(i + batch_size, Len(json_files)))
BatchKeys == {batch_files[n] : n \in 1..Len(batch_files)}

\* tasks = [process_file(...) for key in batch_files]; await gather (207-210)
Dispatch ==
    /\ pc = "loop"
    /\ i < Len(json_files)
    /\ task' = [k \in Keys |-> IF k \in BatchKeys THEN "waiting" ELSE task[k]]
    /\ pc' = "gather"
    /\ UNCHANGED <<store, file_exists, file, json_files, i, results, in_flight,
                   fetches, write_buffer, processed_count, error_count, errors,
                   summary, probe,
                   listed, file_lock, writer, args, filtered, commit>>

\* process_file without  async with semaphore : the fetch is issued at once.
AcquireNoSemaphore(k) ==
    /\ pc = "gather"
    /\ task[k] = "waiting"
    /\ \A j \in BatchKeys : j < k => task[j] # "waiting"
    /\ task' = [task EXCEPT ![k] = "fetching"]
    /\ in_flight' = in_flight + 1
    /\ fetches' = [fetches EXCEPT ![k] = @ + 1]
    /\ UNCHANGED <<store, file_exists, file, pc, json_files, i, results,
                   write_buffer, processed_count, error_count, errors,
                   summary, probe, listed, file_lock, writer, args, filtered, commit>>

\* async with semaphore, then get_object is issued (lines 87-89).  The tasks
\* of a batch reach the semaphore in the order they were created.
Acquire(k) ==
    /\ pc = "gather"
    /\ task[k] = "waiting"
    /\ in_flight < MAX_CONCURRENT_DOWNLOADS
    /\ \A j \in BatchKeys : j < k => task[j] # "waiting"
    /\ task' = [task EXCEPT ![k] = "fetching"]
    /\ in_flight' = in_flight + 1
    /\ fetches' = [fetches EXCEPT ![k] = @ + 1]
    /\ UNCHANGED <<store, file_exists, file, pc, json_files, i, results,
                   write_buffer, processed_count, error_count, errors,
                   summary, probe,
                   listed, file_lock, writer, args, filtered, commit>>

\* The fetch ends (with the body or an exception); the rest of process_file
\* runs without suspending, returns, and the semaphore is released.  An
\* exception that leaves the task is re-raised by gather in main().
Complete(k) ==
    /\ pc = "gather"
    /\ task[k] = "fetching"
    /\ LET r == process_file(k, store[k])
       IN  IF r = Raise
           THEN /\ pc' = "crashed"
                /\ UNCHANGED results
           ELSE /\ results' = [results EXCEPT ![k] = r]
                /\ UNCHANGED pc
    /\ task' = [task EXCEPT ![k] = "done"]
    /\ in_flight' = in_flight - 1
    /\ UNCHANGED <<store, file_exists, file, json_files, i, fetches,
                   write_buffer, processed_count, error_count, errors,
                   summary, probe,
                   listed, file_lock, writer, args, filtered, commit>>

\* The collecting loop with  elif error:  for  else: , so that a task that
\* returned an empty list and no error string is counted nowhere.
RECURSIVE CollectResultsElifError(_, _, _)
CollectResultsElifError(rs, n, acc) ==
    IF n > Len(rs) THEN acc
    ELSE LET r == rs[n]
         IN  IF ~r.items.none /\ Len(r.items.v) > 0
             THEN CollectResultsElifError(rs, n + 1,
                      [acc EXCEPT !.buffer = @ \o r.items.v, !.processed = @ + 1])
             ELSE IF r.error # NoError
             THEN CollectResultsElifError(rs, n + 1,
                      [acc EXCEPT !.error_count = @ + 1, !.errors = Append(@, r.error)])
             ELSE CollectResultsElifError(rs, n + 1, acc)

\* for items, error in results: ... (lines 213-220), from the n-th result
RECURSIVE CollectResults(_, _, _)
CollectResults(rs, n, acc) ==
    IF n > Len(rs) THEN acc
    ELSE LET r == rs[n]
         IN  IF ~r.items.none /\ Len(r.items.v) > 0
             THEN CollectResults(rs, n + 1,
                      [acc EXCEPT !.buffer = @ \o r.items.v, !.processed = @ + 1])
             ELSE CollectResults(rs, n + 1,
                      [acc EXCEPT !.error_count = @ + 1,
                                  !.errors = IF r.error # NoError
                                             THEN Append(@, r.error) ELSE @])

\* The collecting step without waiting for gather: taken while tasks of the
\* batch are still running.
CollectEarly ==
    /\ pc = "gather"
    /\ LET gathered == [n \in 1..Len(batch_files) |-> results[batch_files[n]]]
           acc == CollectResults(gathered, 1,
                     [buffer |-> write_buffer, processed |-> processed_count,
                      error_count |-> error_count, errors |-> errors])
       IN  /\ write_buffer' = acc.buffer
           /\ processed_count' = acc.processed
           /\ error_count' = acc.error_count
           /\ errors' = acc.errors
    /\ pc' = "flush"
    /\ UNCHANGED <<store, file_exists, file, json_files, i, task, results,
                   in_flight, fetches, summary, probe, listed, file_lock, writer, args, filtered, commit>>

\* The collecting step taking the results of the batch from the last task
\* to the first.
CollectReversed ==
    /\ pc = "gather"
    /\ \A k \in BatchKeys : task[k] = "done"
    /\ LET gathered == [n \in 1..Len(batch_files) |->
                           results[batch_files[Len(batch_files) + 1 - n]]]
           acc == CollectResults(gathered, 1,
                     [buffer |-> write_buffer, processed |-> processed_count,
                      error_count |-> error_count, errors |-> errors])
       IN  /\ write_buffer' = acc.buffer
           /\ processed_count' = acc.processed
           /\ error_count' = acc.error_count
           /\ errors' = acc.errors
    /\ pc' = "flush"
    /\ UNCHANGED <<store, file_exists, file, json_files, i, task, results,
                   in_flight, fetches, summary, probe, listed, file_lock,
                   writer, args, filtered, commit>>

Collect ==
    /\ pc = "gather"
    /\ \A k \in BatchKeys : task[k] = "done"
    /\ LET gathered == [n \in 1..Len(batch_files) |-> results[batch_files[n]]]
           acc == CollectResults(gathered, 1,
                     [buffer |-> write_buffer, processed |-> processed_count,
                      error_count |-> error_count, errors |-> errors])
       IN  /\ write_buffer' = acc.buffer
           /\ processed_count' = acc.processed
           /\ error_count' = acc.error_count
           /\ errors' = acc.errors
    /\ pc' = "flush"
    /\ UNCHANGED <<store, file_exists, file, json_files, i, task, results,
                   in_flight, fetches, summary, probe,
                   listed, file_lock, writer, args, filtered, commit>>

\* write_batch: the lines appended to the file, one per item of the batch.
\* A line is kept as the record json.dumps serialised on it.
write_batch(f, batch) == f \o batch

\* The flush with  >  for  >= : a buffer holding exactly the threshold stays.
FlushAboveThreshold ==
    /\ pc = "flush"
    /\ IF Len(write_buffer) > write_batch_size
       THEN /\ file' = write_batch(file, write_buffer)
            /\ file_exists' = TRUE
            /\ write_buffer' = <<>>
       ELSE UNCHANGED <<file, file_exists, write_buffer>>
    /\ i' = i + batch_size
    /\ pc' = "loop"
    /\ UNCHANGED <<store, json_files, task, results, in_flight, fetches,
                   processed_count, error_count, errors, summary, probe,
                   listed, file_lock, writer, args, filtered, commit>>

\* if len(write_buffer) >= write_batch_size: write, empty (lines 223-225),
\* then the next turn of the batch loop.
Flush ==
    /\ pc = "flush"
    /\ IF Len(write_buffer) >= write_batch_size
       THEN /\ file' = write_batch(file, write_buffer)
            /\ file_exists' = TRUE
            /\ write_buffer' = <<>>
       ELSE UNCHANGED <<file, file_exists, write_buffer>>
    /\ i' = i + batch_size
    /\ pc' = "loop"
    /\ UNCHANGED <<store, json_files, task, results, in_flight, fetches,
                   processed_count, error_count, errors, summary, probe,
                   listed, file_lock, writer, args, filtered, commit>>

\* main() without lines 228-229: what is left in the buffer is not written.
FinalFlushNoWrite ==
    /\ pc = "loop"
    /\ i >= Len(json_files)
    /\ pc' = "summary"
    /\ UNCHANGED <<store, file_exists, file, json_files, i, task, results,
                   in_flight, fetches, write_buffer, processed_count,
                   error_count, errors, summary, probe,
                   listed, file_lock, writer, args, filtered, commit>>

\* The loop is over: if write_buffer: write_batch(...) (lines 228-229)
FinalFlush ==
    /\ pc = "loop"
    /\ i >= Len(json_files)
    /\ IF Len(write_buffer) > 0
       THEN /\ file' = write_batch(file, write_buffer)
            /\ file_exists' = TRUE
       ELSE UNCHANGED <<file, file_exists>>
    /\ pc' = "summary"
    /\ UNCHANGED <<store, json_files, i, task, results, in_flight, fetches,
                   write_buffer, processed_count, error_count, errors,
                   summary, probe,
                   listed, file_lock, writer, args, filtered, commit>>

\* The printed summary (lines 232-240).
Summary ==
    /\ pc = "summary"
    /\ summary' = [printed |-> TRUE,
                   processed |-> processed_count,
                   errors |-> error_count,
                   sample |-> IF Len(errors) > 0 /\ error_count <= SummaryErrorLimit
                              THEN SubSeq(errors, 1, Min(SummarySample, Len(errors)))
                              ELSE <<>>]
    /\ pc' = "done"
    /\ UNCHANGED <<store, file_exists, file, json_files, i, task, results,
                   in_flight, fetches, write_buffer, processed_count,
                   error_count, errors, probe,
                   listed, file_lock, writer, args, filtered, commit>>

Next ==
    \/ CheckExists
    \/ Prompt
    \/ ListKeys
    \/ Dispatch
    \/ \E k \in Keys : Acquire(k)
    \/ \E k \in Keys : Complete(k)
    \/ Collect
    \/ Flush
    \/ FinalFlush
    \/ Summary

Spec == Init /\ [][Next]_vars

----------------------------------------------------------------------------
(* Properties of the download run *)

Range(q) == {q[n] : n \in 1..Len(q)}
JsonKeySet == {k \in Keys : store[k].json}
Finished == pc \in {"summary", "done"}

\* What process_file makes of key k.
Derived(k) == process_file(k, store[k])
YieldsRecords(k) == ~Derived(k).items.none /\ Len(Derived(k).items.v) > 0

\* The score of a decoded item as the data model reads it: Absent when the
\* evaluation is not an object or carries no score.
SourceScore(item) ==
    IF /\ item.t = "dict"
       /\ Has(item, "evaluation")
       /\ item.f["evaluation"].t = "dict"
       /\ Has(item.f["evaluation"], "score")
    THEN item.f["evaluation"].f["score"]
    ELSE Absent

\* The number 0 or 1, as an int or as a float.
IsZeroOrOne(sc) == sc \in {JInt(0), JInt(1), JFloat(0), JFloat(2)}

\* A score that is missing, null, a string, or a number other than 0 and 1.
ScoreRefused(sc) ==
    \/ sc = Absent
    \/ sc.t \in {"null", "str"}
    \/ sc.t \in {"int", "float"} /\ ~IsZeroOrOne(sc)

\* The required-field-and-score condition on one decoded value: the five
\* fields, and a score that is none of the refused ones.
HasAllFive(v) == v.t = "dict" /\ REQUIRED_KEYS \subseteq DOMAIN v.f
PassesBoth(v) == HasAllFive(v) /\ ~ScoreRefused(SourceScore(v))

\* The elements of a decoded document: itself, or the elements of the list.
Elements(v) == IF v.t = "list" THEN v.a ELSE <<v>>

\* How many elements of a decoded document meet the condition.
PassingCount(v) == Cardinality({n \in 1..Len(Elements(v)) : PassesBoth(Elements(v)[n])})

\* C1: every enumerated key adds one to exactly one of the two counters: when
\* the final summary is reported no fetch is in flight and processed_count +
\* error_count is the number of enumerated .json keys, whatever the objects.
C1_CountsAddUp ==
    /\ Finished =>
          /\ in_flight = 0
          /\ \A k \in Keys : task[k] \notin {"waiting", "fetching"}
          /\ processed_count + error_count = Cardinality(JsonKeySet)
          /\ processed_count = Cardinality({k \in JsonKeySet : YieldsRecords(k)})
    /\ pc = "loop" => processed_count + error_count = Min(i, Len(json_files))
    /\ summary.printed =>
          summary.processed + summary.errors = Cardinality(JsonKeySet)

C1_Witness ==
    /\ pc = "done"
    /\ processed_count >= 1
    /\ error_count >= 2
    /\ \E k \in Keys : store[k] = AllBadScores
    /\ \E k \in Keys : store[k] = FetchError
    /\ \E k \in Keys : ~store[k].json

\* C2: a failure on one key (fetch error, undecodable bytes, JSON decode
\* error, missing fields, invalid score, an exception during normalisation)
\* never aborts the run: process_file returns a pair for it, the key is
\* fetched once and never again, every other key is still processed, and the
\* run reaches its final summary.
C2_State ==
    /\ pc # "crashed"
    /\ \A k \in Keys : fetches[k] <= 1
    /\ \A k \in Keys : task[k] = "done" => results[k] = Derived(k)
    /\ Finished => \A k \in JsonKeySet : fetches[k] = 1 /\ task[k] = "done"
\* Every step of a run moves it forward: main() to a later position, or a
\* task to a later state.
PcRank ==
    CASE pc = "start" -> 0
      [] pc = "prompt" -> 1
      [] pc = "list" -> 2
      [] pc = "loop" -> 3 + 3 * (i \div batch_size)
      [] pc = "gather" -> 4 + 3 * (i \div batch_size)
      [] pc = "flush" -> 5 + 3 * (i \div batch_size)
      [] pc = "summary" -> 6 + 3 * MaxKeys
      [] OTHER -> 7 + 3 * MaxKeys
TaskRank(k) ==
    CASE task[k] = "idle" -> 0
      [] task[k] = "waiting" -> 1
      [] task[k] = "fetching" -> 2
      [] task[k] = "done" -> 3
RECURSIVE SumTaskRank(_)
SumTaskRank(n) == IF n = 0 THEN 0 ELSE SumTaskRank(n - 1) + TaskRank(n)
Rank == PcRank + SumTaskRank(Cardinality(Keys))

\* While main() awaits a batch, a task can take the semaphore, a fetch can
\* end, or the batch is complete and can be collected; at every other
\* position before the end main() itself can step.
CanStep ==
    \/ pc \in {"start", "prompt", "list", "loop", "flush", "summary"}
    \/ /\ pc = "gather"
       /\ \/ \A k \in BatchKeys : task[k] = "done"
          \/ \E k \in BatchKeys : task[k] = "fetching"
          \/ /\ \E k \in BatchKeys : task[k] = "waiting"
             /\ in_flight < MAX_CONCURRENT_DOWNLOADS

C2_FailureNeverAborts ==
    /\ [](C2_State /\ (pc \notin {"done", "aborted"} => CanStep))
    /\ [][Rank' > Rank]_vars

C2_Witness ==
    /\ pc = "done"
    /\ Cardinality(Keys) > batch_size
    /\ store[1] = NullChallenge
    /\ results[1].error = Reason(ErrProcessing, 1)
    /\ \A k \in Keys \ {1} : fetches[k] = 1 /\ YieldsRecords(k)
    /\ processed_count = Cardinality(Keys) - 1

\* The records of keys 1..n, in key order.
RECURSIVE DerivedRecords(_)
DerivedRecords(n) ==
    IF n = 0 THEN <<>>
    ELSE DerivedRecords(n - 1)
         \o (IF store[n].json THEN Derived(n).items.v ELSE <<>>)

\* What the tasks return is what the file holds: the file of a finished run
\* is the concatenation of the returned record lists in key order, and the
\* error count is the number of keys that returned none.
FileIsWhatTasksReturned ==
    Finished =>
        /\ file = DerivedRecords(Cardinality(Keys))
        /\ error_count = Cardinality({k \in JsonKeySet : ~YieldsRecords(k)})

\* The canonical records of one object as the data model derives them: the
\* normalized forms of the elements that pass the required-field-and-score
\* condition; none when the content is not fetched, empty or not decoded.
Canonical(e) == ScoredItem(e)
RecordsOf(obj) ==
    IF /\ obj.fetch = "ok" /\ obj.utf8
       /\ strip(obj) \notin {"", "[]"}
       /\ json_loads(obj) # JSONDecodeError
    THEN LET IsDerivable(e) == PassesBoth(e) /\ Canonical(e).k = "ok"
             good == SelectSeq(Elements(json_loads(obj)), IsDerivable)
         IN  [n \in 1..Len(good) |-> Canonical(good[n]).rec]
    ELSE <<>>

\* The records of the json keys 1..n, in key order.
RECURSIVE ExpectedFile(_)
ExpectedFile(n) ==
    IF n = 0 THEN <<>>
    ELSE ExpectedFile(n - 1) \o (IF store[n].json THEN RecordsOf(store[n]) ELSE <<>>)

\* C3: when a run completes, the output file holds exactly the canonical
\* records derived from the valid keys, each once, those left in the buffer
\* below the flush threshold included; and the error count is the number of
\* keys that yielded no record.
C3_FileHoldsTheRecords ==
    Finished =>
        /\ file = ExpectedFile(Cardinality(Keys))
        /\ error_count = Cardinality({k \in JsonKeySet : RecordsOf(store[k]) = <<>>})

\* The reasons the error log holds for key k.
ReasonsFor(k) == {errors[n].kind : n \in {m \in 1..Len(errors) : errors[m].key = k}}

\* A key whose content is fetched, not empty and decoded, and in which
\* nothing passes the required-field-and-score check.
FailsValidation(k) ==
    /\ store[k].fetch = "ok" /\ store[k].utf8
    /\ strip(store[k]) \notin {"", "[]"}
    /\ json_loads(store[k]) # JSONDecodeError
    /\ PassingCount(json_loads(store[k])) = 0

\* C4: every key counted in the error count has a reason in the error log
\* that names it; a key whose content fails validation (a single object, or
\* an array with no element passing the required-field-and-score check) has
\* a "missing required keys" or "invalid score" reason; so at completion the
\* number of recorded reasons equals the error count.
C4_EverySkipHasItsReason ==
    Finished =>
        /\ Len(errors) = error_count
        /\ \A k \in JsonKeySet : ~YieldsRecords(k) => ReasonsFor(k) # {}
        /\ \A k \in JsonKeySet :
              FailsValidation(k) => ReasonsFor(k) \cap {ErrMissingKeys, ErrScore} # {}

\* The passing elements of the json keys 1..n of the bucket.
RECURSIVE PassingTotal(_)
PassingTotal(n) ==
    IF n = 0 THEN 0
    ELSE PassingTotal(n - 1)
         + (IF store[n].json THEN PassingCount(store[n].decoded) ELSE 0)

HasIntegerScore(r) ==
    /\ r.t = "dict"
    /\ Has(r, "evaluation")
    /\ r.f["evaluation"].t = "dict"
    /\ Has(r.f["evaluation"], "score")
    /\ r.f["evaluation"].f["score"] \in {JInt(0), JInt(1)}

RunStarted == pc \notin {"start", "prompt", "aborted"}

\* C7: in every reachable state every record in the write buffer and in the
\* output file has an evaluation.score that is the integer 0 or the integer
\* 1, and no record whose source score was a string, null, missing or a
\* number other than 0 or 1 is among them: a key returns no more records
\* than it has elements with an acceptable score, and the buffer and the
\* file hold no more than the bucket has.
C7_ScoreIsIntegerZeroOrOne ==
    /\ \A r \in Range(write_buffer) \cup Range(file) : HasIntegerScore(r)
    /\ \A k \in DOMAIN results :
          ~results[k].items.none =>
              /\ \A r \in Range(results[k].items.v) : HasIntegerScore(r)
              /\ Len(results[k].items.v) <= PassingCount(store[k].decoded)
    /\ RunStarted =>
          /\ Len(write_buffer) <= PassingTotal(Cardinality(Keys))
          /\ Len(file) <= PassingTotal(Cardinality(Keys))

\* A finished run over a bucket with a float score 1.0, a boolean score and
\* a score of 0.5: the first two are in the file as integers, the third is not.
C7_Witness ==
    /\ pc = "done"
    /\ \E k \in Keys : store[k] = OneRecord
    /\ \E k \in Keys : store[k] = TwoRecords
    /\ \E k \in Keys : store[k] = HalfScore
    /\ \E n \in 1..Len(file) : file[n].f["evaluation"].f["score"] = JInt(1)
    /\ Len(file) = PassingTotal(Cardinality(Keys))

\* The keys whose fetch is under way.
Fetching == {k \in Keys : task[k] = "fetching"}

\* C12: in every reachable state the number of fetches in flight (tasks
\* holding the semaphore inside process_file) is at most
\* MAX_CONCURRENT_DOWNLOADS, whatever the number of keys and the order in
\* which the fetches complete.
C12_InFlightIsBounded ==
    /\ in_flight = Cardinality(Fetching)
    /\ Cardinality(Fetching) <= MAX_CONCURRENT_DOWNLOADS

\* The semaphore is full and a task of the batch waits for it.
C12_Witness ==
    /\ Cardinality(Fetching) = MAX_CONCURRENT_DOWNLOADS
    /\ \E k \in Keys : task[k] = "waiting"

\* The batches stand in order: the keys before the current batch are done,
\* the keys after it have not started, and between two batches no task runs.
BatchesInOrder ==
    \A p \in 1..Len(json_files) :
        LET k == json_files[p]
        IN  /\ p <= i => task[k] = "done"
            /\ p > i + batch_size => task[k] = "idle" /\ fetches[k] = 0
            /\ (p > i /\ pc = "loop") => task[k] = "idle" /\ fetches[k] = 0
            /\ pc = "flush" => (p <= i + batch_size => task[k] = "done")

Collected == <<write_buffer, processed_count, error_count, errors>>

\* C13: keys are dispatched in batches of fixed size with a barrier between
\* them: no key of the next batch starts fetching, and no result of a batch
\* is added to the write buffer, until every key of the batch has completed.
C13_BarrierBetweenBatches ==
    /\ [](/\ BatchesInOrder
          /\ pc = "gather" => Len(batch_files) = Min(batch_size, Len(json_files) - i))
    /\ [][Collected' # Collected => \A k \in BatchKeys : task[k] = "done"]_vars

\* In the first of two batches one task has returned records, another is
\* still fetching, nothing is in the buffer and the second batch is idle.
C13_Witness ==
    /\ pc = "gather"
    /\ i = 0
    /\ Len(json_files) > batch_size
    /\ \E k \in BatchKeys : task[k] = "done" /\ YieldsRecords(k)
    /\ \E k \in BatchKeys : task[k] = "fetching"
    /\ write_buffer = <<>>
    /\ \A k \in JsonKeySet \ BatchKeys : task[k] = "idle"

\* C14 as stated: in no reachable state does the write buffer hold more
\* records than the flush threshold.
C14_BufferWithinThreshold == Len(write_buffer) <= write_batch_size

\* The records the tasks of the current batch returned.
RECURSIVE BatchRecords(_)
BatchRecords(n) ==
    IF n = 0 THEN 0
    ELSE BatchRecords(n - 1) + Len(results[batch_files[n]].items.v)

\* C14: the buffer is compared with the threshold once per batch, after the
\* results of the whole batch were added; a buffer of at least the threshold
\* is then written in full and emptied before the next batch.  So the buffer
\* is below the threshold whenever a batch is dispatched or running, and
\* after a batch was collected it holds at most what it held before plus the
\* records of that batch, which can be more than the threshold.
C14_BufferBelowThresholdBetweenBatches ==
    /\ [](/\ pc # "flush" => Len(write_buffer) < write_batch_size
          /\ pc = "flush" =>
                Len(write_buffer) <= write_batch_size - 1 + BatchRecords(Len(batch_files)))
    /\ [][(pc = "flush" /\ Len(write_buffer) >= write_batch_size) =>
              /\ file' = file \o write_buffer
              /\ write_buffer' = <<>>]_vars

\* A collected batch has left more than the threshold in the buffer.
C14_Witness ==
    /\ pc = "flush"
    /\ Len(write_buffer) > write_batch_size

\* Nothing of the run has happened: no listing, no fetch, nothing collected.
NothingDone ==
    /\ json_files = <<>>
    /\ listed = 0
    /\ \A k \in Keys : fetches[k] = 0 /\ task[k] = "idle"
    /\ in_flight = 0
    /\ write_buffer = <<>>
    /\ processed_count = 0 /\ error_count = 0 /\ errors = <<>>
    /\ summary = NoSummary

\* C16: if the output file exists when the run starts and the operator does
\* not confirm, the run aborts without side effects: no listing, no fetch,
\* no write, and the existing file is left as it was.  The run goes past the
\* prompt only with the file removed.
C16_AbortLeavesEverything ==
    /\ pc \in {"start", "prompt", "aborted"} => NothingDone
    /\ pc \in {"prompt", "aborted"} => file_exists /\ file = <<PriorRecord>>
    /\ pc = "list" => file = <<>> /\ ~file_exists

C16_Witness ==
    /\ pc = "aborted"
    /\ Cardinality(JsonKeySet) > 0

\* C19: the final summary of a completed run includes a small sample of the
\* error reasons whenever at least one reason was recorded, whatever the
\* number of errors.
C19_SummaryShowsSample ==
    (pc = "done" /\ Len(errors) > 0) =>
        /\ summary.printed
        /\ Len(summary.sample) > 0
        /\ Len(summary.sample) <= SummarySample
        /\ \A n \in 1..Len(summary.sample) : summary.sample[n] \in Range(errors)

\* The json keys that hold an array.
ArrayKeys == {k \in JsonKeySet : json_loads(store[k]).t = "list"}

\* C23: a key is counted as processed if and only if it contributed at least
\* one canonical record to the write buffer: an array-valued key with at
\* least one valid element is counted as processed even when other elements
\* are dropped, and a key that yields no record (an array whose elements all
\* have invalid scores included) is counted as an error.
C23_ProcessedIffContributed ==
    Finished =>
        /\ processed_count = Cardinality({k \in JsonKeySet : YieldsRecords(k)})
        /\ error_count = Cardinality({k \in JsonKeySet : ~YieldsRecords(k)})
        /\ \A k \in ArrayKeys :
              PassingCount(json_loads(store[k])) > 0 => YieldsRecords(k)
        /\ \A k \in JsonKeySet : RecordsOf(store[k]) = <<>> => ~YieldsRecords(k)

\* The two capacities as the program configures them:
\* MAX_CONCURRENT_DOWNLOADS = 1000 (line 38), the capacity of the semaphore,
\* and Config(max_pool_connections=256) (line 169).
SemaphoreCapacity == 1000
max_pool_connections == 256

\* C24: the ceiling of the worker pool does not exceed the capacity of the
\* connection pool: the capacity of the semaphore is at most the client's
\* max_pool_connections.
C24_CeilingWithinPool ==
    RunStarted => SemaphoreCapacity <= max_pool_connections

\* C25: the error log kept in memory is bounded: in every reachable state
\* it holds at most a fixed sample of reasons, however many keys are skipped.
C25_ErrorLogIsBounded == Len(errors) <= SummarySample

\* C28: after a run that completes normally the output file exists, also
\* when no key yielded a record (no key at all, or every key skipped).
C28_OutputFileExists == pc = "done" => file_exists

\* What a key adds to the output: the normalized forms of its valid
\* elements in the order of the array, if it adds anything.
Contribution(k) == IF YieldsRecords(k) THEN RecordsOf(store[k]) ELSE <<>>

\* The contributions of the first m enumerated keys, in enumeration order.
RECURSIVE InKeyOrder(_)
InKeyOrder(m) ==
    IF m = 0 THEN <<>> ELSE InKeyOrder(m - 1) \o Contribution(json_files[m])

\* How many enumerated keys have been collected, and what they have left in
\* the file and the buffer.
CollectedUpTo ==
    Min(Len(json_files), IF pc = "flush" THEN i + batch_size ELSE i)
Written == IF Finished THEN file ELSE file \o write_buffer

\* C27: the order of the output is fixed: records are appended in the order
\* in which the keys were enumerated, and within an array-valued key in the
\* order of the array, whatever the order in which the fetches complete.
C27_OutputInKeyOrder ==
    (RunStarted /\ pc # "crashed") => Written = InKeyOrder(CollectedUpTo)

\* In one batch the fetch of a later key has completed before the fetch of
\* an earlier key, and both keys yield records.
C27_Witness ==
    /\ pc = "gather"
    /\ \E k1, k2 \in BatchKeys :
          /\ k1 < k2
          /\ task[k1] = "fetching" /\ task[k2] = "done"
          /\ YieldsRecords(k1) /\ YieldsRecords(k2)
          /\ Contribution(k1) # Contribution(k2)

----------------------------------------------------------------------------
(* The helpers applied to one input: is_valid_result, process_file and     *)
(* normalize_result on every object of ProbeObjects, with no run going on. *)

\* A decoded value that is a valid record: a dict with every required key
\* whose evaluation carries an accepted score.
IsValidRecord(v) ==
    /\ HasRequiredKeys(v)
    /\ get_score(v) # Raise
    /\ score_is_valid(get_score(v))

Decodes(obj) == obj.fetch = "ok" /\ obj.utf8 /\ obj.decoded # JSONDecodeError

HelperInit ==
    /\ probe \in {[step |-> "drawn", obj |-> o] : o \in ProbeObjects}
    /\ store = <<>>
    /\ file_exists = FALSE
    /\ file = <<>>
    /\ pc = "off"
    /\ json_files = <<>>
    /\ i = 0
    /\ task = <<>>
    /\ results = <<>>
    /\ in_flight = 0
    /\ fetches = <<>>
    /\ write_buffer = <<>>
    /\ processed_count = 0
    /\ error_count = 0
    /\ errors = <<>>
    /\ summary = NoSummary
    /\ listed = 0
    /\ file_lock = FALSE
    /\ writer = <<>>
    /\ args = NoArgs
    /\ filtered = <<>>
    /\ commit = NoCommit

run_vars == <<store, file_exists, file, pc, json_files, i, task, results,
              in_flight, fetches, write_buffer, processed_count, error_count,
              errors, summary, listed, file_lock, writer, args, filtered, commit>>

ProbeValidate ==
    /\ probe.step = "drawn"
    /\ Decodes(probe.obj)
    /\ probe' = [step |-> "validated", obj |-> probe.obj,
                 valid |-> is_valid_result(json_loads(probe.obj))]
    /\ UNCHANGED run_vars

ProbeProcess ==
    /\ probe.step = "drawn"
    /\ probe' = [step |-> "processed", obj |-> probe.obj,
                 out |-> process_file(1, probe.obj)]
    /\ UNCHANGED run_vars

ProbeNormalize ==
    /\ probe.step = "drawn"
    /\ Decodes(probe.obj)
    /\ IsValidRecord(json_loads(probe.obj))
    /\ probe' = [step |-> "normalized", obj |-> probe.obj,
                 norm |-> normalize_result(json_loads(probe.obj))]
    /\ UNCHANGED run_vars

ProbeNormalizeAgain ==
    /\ probe.step = "normalized"
    /\ probe.norm # Raise
    /\ probe' = [step |-> "renormalized", obj |-> probe.obj, norm |-> probe.norm,
                 twice |-> normalize_result(probe.norm)]
    /\ UNCHANGED run_vars

HelperNext ==
    \/ ProbeValidate
    \/ ProbeProcess
    \/ ProbeNormalize
    \/ ProbeNormalizeAgain

HelperSpec == HelperInit /\ [][HelperNext]_vars

----------------------------------------------------------------------------
(* Properties of the helpers *)

Processed == probe.step = "processed"
Skipped == probe.out.items.none

\* The reason of the first check that fails, in the order fetch, empty
\* content, JSON decode, required keys, score; "None" when all five pass.
FirstFailingCheck(obj) ==
    IF obj.fetch # "ok" \/ ~obj.utf8 THEN ErrProcessing
    ELSE IF obj.core \in {"", "[]"} THEN ErrEmpty
    ELSE IF obj.decoded = JSONDecodeError THEN ErrDecode
    ELSE IF ~HasAllFive(obj.decoded) THEN ErrMissingKeys
    ELSE IF ScoreRefused(SourceScore(obj.decoded)) THEN ErrScore
    ELSE "None"

\* Content that is not an array of elements: a single object, or content
\* that fails before it is known to be one.
HoldsSingleObject(obj) == obj.decoded.t # "list" \/ obj.core = "[]"

\* C5: for a key holding a single object, the recorded skip reason is that
\* of the first failing check in the order fetch, empty content, JSON
\* decode, required keys, score: empty or "[]" content is skipped as empty,
\* and an object that lacks required keys and has a bad score is skipped as
\* missing required keys.
C5_ReasonOfFirstFailingCheck ==
    (/\ Processed
     /\ HoldsSingleObject(probe.obj)
     /\ Skipped
     /\ FirstFailingCheck(probe.obj) # "None")
        => probe.out.error.kind = FirstFailingCheck(probe.obj)

\* The validator as the data model has it: the value, or for an array at
\* least one element, carries the five fields and an accepted score.
PassesFieldsAndScore(v) == PassingCount(v) > 0

\* C6 as stated: is_valid_result returns false unless the value carries all
\* five required fields and an evaluation.score that is the number 0 or 1,
\* and accepts an array only if an element satisfies both conditions.
C6_ValidatorChecksTheScore ==
    (probe.step = "validated" /\ probe.valid) => PassesFieldsAndScore(probe.obj.decoded)

\* The required-field condition alone.
PassesFields(v) == \E n \in 1..Len(Elements(v)) : HasAllFive(Elements(v)[n])

\* C6: is_valid_result is true exactly for an object with the five required
\* fields, or an array with at least one such element, whatever the score;
\* the score is checked by process_file afterwards: a single object whose
\* score is 0.5, a string, null or missing yields no record, and an array
\* yields no more records than it has elements with the five fields and an
\* acceptable score.
C6_ValidatorChecksTheFieldsOnly ==
    /\ probe.step = "validated" => (probe.valid <=> PassesFields(probe.obj.decoded))
    /\ (Processed /\ Decodes(probe.obj)) =>
          /\ (/\ probe.obj.decoded.t # "list"
              /\ HasAllFive(probe.obj.decoded)
              /\ ScoreRefused(SourceScore(probe.obj.decoded))) => Skipped
          /\ ~Skipped =>
                Len(probe.out.items.v) <= PassingCount(probe.obj.decoded)

\* The validator has accepted an object with the five fields and score 0.5.
C6_Witness ==
    /\ probe.step = "validated"
    /\ probe.valid
    /\ probe.obj = Doc(Scored(JFloat(1)))

\* C8: in an array, an element that fails on its own (missing fields, or a
\* score that is missing, null, a string or not 0/1, an evaluation that is
\* null or not an object included) is skipped alone: the records of the key
\* are exactly the normalized forms of the valid elements, and the key is
\* not skipped as a whole.
C8_FailingElementSkippedAlone ==
    (/\ Processed
     /\ Decodes(probe.obj)
     /\ probe.obj.decoded.t = "list"
     /\ PassesFieldsAndScore(probe.obj.decoded))
        => LET good == SelectSeq(probe.obj.decoded.a, PassesBoth)
           IN  /\ ~Skipped
               /\ probe.out.items.v = [n \in 1..Len(good) |-> ScoredItem(good[n]).rec]

\* C9: normalize_result is idempotent: normalizing the normalized form of a
\* valid record gives that normalized form again.
C9_NormalizeIsIdempotent ==
    probe.step = "renormalized" => probe.twice = probe.norm

\* A record whose challenge.extra, evaluation.extra and miner.chute were all
\* converted has been normalized a second time.
C9_Witness ==
    /\ probe.step = "renormalized"
    /\ probe.norm # probe.obj.decoded
    /\ probe.norm.f["challenge"].t = "dict" /\ Has(probe.norm.f["challenge"], "extra_json")
    /\ Has(probe.norm.f["evaluation"], "extra_json")
    /\ probe.norm.f["miner"].t = "dict" /\ Has(probe.norm.f["miner"], "chute_json")

IsNested(v) == v.t \in {"dict", "list"}
FlatFields == {"challenge", "evaluation", "miner"}
ConvertedKey(F) == IF F = "miner" THEN "chute" ELSE "extra"
IsObjectField(r, F) == r.t = "dict" /\ Has(r, F) /\ r.f[F].t = "dict"

\* No object or array directly under challenge, evaluation or miner.
Flat(r) ==
    \A F \in FlatFields :
        IsObjectField(r, F) => \A sub \in DOMAIN r.f[F].f : ~IsNested(r.f[F].f[sub])

\* C10 as stated: every emitted record has no nested object or array value
\* directly under challenge, evaluation or miner, whatever sub-fields the
\* source record carries.
C10_NoNestedValue ==
    (Processed /\ ~Skipped) => \A r \in Range(probe.out.items.v) : Flat(r)

\* The sub-fields normalize_result does not convert are scalars.
OtherSubFieldsScalar(e) ==
    \A F \in FlatFields :
        IsObjectField(e, F) =>
            \A sub \in DOMAIN e.f[F].f \ {ConvertedKey(F)} : ~IsNested(e.f[F].f[sub])

\* No extra is left under challenge or evaluation, and no chute but a null one.
NoConvertedKeyLeft(r) ==
    \A F \in FlatFields :
        (IsObjectField(r, F) /\ Has(r.f[F], ConvertedKey(F)))
            => (F = "miner" /\ r.f[F].f["chute"] = JNull)

\* Every other sub-field of the source is in the record with the same value.
PassedThrough(src, r) ==
    \A F \in FlatFields :
        IsObjectField(src, F) =>
            \A sub \in DOMAIN src.f[F].f \ {ConvertedKey(F), "score"} :
                Has(r.f[F], sub) /\ r.f[F].f[sub] = src.f[F].f[sub]

\* C10: an emitted record has no extra under challenge or evaluation and no
\* chute other than null under miner; when the other sub-fields of the
\* source under the three fields are scalars, every value directly under
\* them in the record is a scalar; any other sub-field is passed through
\* with the value it had, nested or not.
C10_ConvertedFieldsAreFlat ==
    (Processed /\ ~Skipped) =>
        /\ \A r \in Range(probe.out.items.v) : NoConvertedKeyLeft(r)
        /\ (\A n \in 1..Len(Elements(probe.obj.decoded)) :
                OtherSubFieldsScalar(Elements(probe.obj.decoded)[n]))
              => \A r \in Range(probe.out.items.v) : Flat(r)
        /\ probe.obj.decoded.t = "dict"
              => PassedThrough(probe.obj.decoded, probe.out.items.v[1])

\* A single object with nested challenge.extra, evaluation.extra and
\* miner.chute has been processed into a flat record.
C10_Witness ==
    /\ Processed
    /\ ~Skipped
    /\ probe.obj.decoded.t = "dict"
    /\ IsObjectField(probe.obj.decoded, "challenge")
    /\ Has(probe.obj.decoded.f["challenge"], "extra")
    /\ Has(probe.obj.decoded.f["evaluation"], "extra")
    /\ probe.obj.decoded.f["evaluation"].f["extra"] = Nested
    /\ IsObjectField(probe.obj.decoded, "miner")
    /\ Has(probe.obj.decoded.f["miner"], "chute")
    /\ probe.obj.decoded.f["miner"].f["chute"] = Nested
    /\ Flat(probe.out.items.v[1])
    /\ probe.out.items.v[1].f["miner"].f["chute_json"].t = "str"

\* A value with nothing in it.
IsEmptyValue(v) ==
    \/ v.t = "null"
    \/ v.t = "dict" /\ DOMAIN v.f = {}
    \/ v.t = "list" /\ Len(v.a) = 0
    \/ v.t = "str" /\ v.s = ""

JsonKeyOf(F) == IF F = "miner" THEN "chute_json" ELSE "extra_json"

\* The reference transformation of one of the three fields: the converted
\* sub-field is taken out (a null chute stays), its serialization is put
\* under the *_json name when it was there (evaluation.extra: and not empty;
\* miner.chute: and not null), the other sub-fields are kept.
RefField(F, d) ==
    LET conv == ConvertedKey(F)
        present == conv \in DOMAIN d.f
        removed == present /\ (F = "miner" => d.f[conv] # JNull)
        replaced == removed /\ (F = "evaluation" => ~IsEmptyValue(d.f[conv]))
        keys == ((DOMAIN d.f) \ (IF removed THEN {conv} ELSE {}))
                    \cup (IF replaced THEN {JsonKeyOf(F)} ELSE {})
    IN  JDict([k \in keys |->
                  IF replaced /\ k = JsonKeyOf(F) THEN JStr(json_dumps(d.f[conv]))
                  ELSE d.f[k]])

\* The reference transformation of a record: the three fields transformed
\* where they are objects, every other field as it was.
RefNormalize(x) ==
    JDict([k \in DOMAIN x.f |->
              IF k \in FlatFields /\ x.f[k].t = "dict" THEN RefField(k, x.f[k])
              ELSE x.f[k]])

ThreeObjects(x) == \A F \in FlatFields : IsObjectField(x, F)

\* C11: normalize_result equals the reference transformation of the data
\* model: no challenge.extra and no evaluation.extra in the result;
\* challenge.extra_json is the serialization of challenge.extra when that
\* was present; evaluation.extra_json is set only when evaluation.extra was
\* present and not empty; miner.chute is replaced by miner.chute_json exactly
\* when it was present and not null; every other field is unchanged.
C11_NormalizeIsTheReference ==
    (probe.step = "normalized" /\ ThreeObjects(probe.obj.decoded)) =>
        /\ probe.norm # Raise
        /\ probe.norm = RefNormalize(probe.obj.decoded)

\* A record with an empty evaluation.extra, a challenge.extra and a null
\* chute has been normalized.
C11_Witness ==
    /\ probe.step = "normalized"
    /\ ThreeObjects(probe.obj.decoded)
    /\ Has(probe.obj.decoded.f["evaluation"], "extra")
    /\ probe.obj.decoded.f["evaluation"].f["extra"] = EmptyDict
    /\ Has(probe.obj.decoded.f["challenge"], "extra")
    /\ Has(probe.obj.decoded.f["miner"], "chute")
    /\ probe.obj.decoded.f["miner"].f["chute"] = JNull
    /\ probe.norm # probe.obj.decoded

----------------------------------------------------------------------------
(* write_batch, call by call: several calls on the same file and lock, each *)
(* writing its batch line by line, and an interruption of the process.      *)

NumWriters == 3
MaxBatch == 2

Writers == 1..NumWriters

\* The n-th record of the batch of call w; the version tells the calls apart.
WriterRecord(w, n) ==
    normalize_result(Item(JInt(w + 1), DictOf({<<"uid", JInt(1)>>}),
                          DictOf({<<"env", JStr("env")>>}),
                          DictOf({<<"score", JInt(n % 2)>>})))
WriterBatch(w, len) == [n \in 1..len |-> WriterRecord(w, n)]

WriterInit ==
    /\ pc = "writers"
    /\ file_exists \in BOOLEAN
    /\ file = IF file_exists THEN <<PriorRecord>> ELSE <<>>
    /\ file_lock = FALSE
    /\ \E len \in [Writers -> 1..MaxBatch] :
          writer = [w \in Writers |->
                       [pc |-> "called", batch |-> WriterBatch(w, len[w]), n |-> 0]]
    /\ store = <<>>
    /\ json_files = <<>>
    /\ i = 0
    /\ task = <<>>
    /\ results = <<>>
    /\ in_flight = 0
    /\ fetches = <<>>
    /\ write_buffer = <<>>
    /\ processed_count = 0
    /\ error_count = 0
    /\ errors = <<>>
    /\ summary = NoSummary
    /\ probe = [step |-> "off"]
    /\ listed = 0
    /\ args = NoArgs
    /\ filtered = <<>>
    /\ commit = NoCommit

main_vars == <<store, json_files, i, task, results, in_flight, fetches,
               write_buffer, processed_count, error_count, errors, summary,
               probe, listed, args, filtered, commit>>

\* async with file_lock (line 142) entered without waiting for the lock.
LockAcquireNoWait(w) ==
    /\ pc = "writers"
    /\ writer[w].pc = "called"
    /\ file_lock' = TRUE
    /\ file_exists' = TRUE
    /\ writer' = [writer EXCEPT ![w].pc = "writing"]
    /\ UNCHANGED <<pc, file>>
    /\ UNCHANGED main_vars

\* async with file_lock: the lock is free and taken; open(output_file, 'a')
\* creates the file if it is not there (lines 142-143).
LockAcquire(w) ==
    /\ pc = "writers"
    /\ writer[w].pc = "called"
    /\ ~file_lock
    /\ file_lock' = TRUE
    /\ file_exists' = TRUE
    /\ writer' = [writer EXCEPT ![w].pc = "writing"]
    /\ UNCHANGED <<pc, file>>
    /\ UNCHANGED main_vars

\* f.write(json.dumps(item, ensure_ascii=False) + '\n') for the next item
\* (lines 144-145).
WriteLine(w) ==
    /\ pc = "writers"
    /\ writer[w].pc = "writing"
    /\ writer[w].n < Len(writer[w].batch)
    /\ file' = Append(file, writer[w].batch[writer[w].n + 1])
    /\ writer' = [writer EXCEPT ![w].n = @ + 1]
    /\ UNCHANGED <<pc, file_exists, file_lock>>
    /\ UNCHANGED main_vars

\* The loop is over: the file is closed and the lock released.
LockRelease(w) ==
    /\ pc = "writers"
    /\ writer[w].pc = "writing"
    /\ writer[w].n = Len(writer[w].batch)
    /\ file_lock' = FALSE
    /\ writer' = [writer EXCEPT ![w].pc = "done"]
    /\ UNCHANGED <<pc, file, file_exists>>
    /\ UNCHANGED main_vars

\* The process is interrupted (KeyboardInterrupt, a signal): every call
\* stops where it is, the lines written so far are in the file.
Interrupt ==
    /\ pc = "writers"
    /\ pc' = "interrupted"
    /\ UNCHANGED <<file, file_exists, file_lock, writer>>
    /\ UNCHANGED main_vars

WriterNext ==
    \/ \E w \in Writers : LockAcquire(w)
    \/ \E w \in Writers : WriteLine(w)
    \/ \E w \in Writers : LockRelease(w)
    \/ Interrupt

WriterSpec == WriterInit /\ [][WriterNext]_vars

----------------------------------------------------------------------------
(* Properties of write_batch *)

InWriterRun == pc \in {"writers", "interrupted"}
Writing == {w \in Writers : writer[w].pc = "writing"}
PriorLines == IF Len(file) > 0 /\ file[1] = PriorRecord THEN 1 ELSE 0

RECURSIVE LinesWritten(_)
LinesWritten(w) == IF w = 0 THEN 0 ELSE LinesWritten(w - 1) + writer[w].n

\* The lines call w has written stand next to each other in the file, in
\* the order of its batch.
Contiguous(w) ==
    writer[w].n > 0 =>
        \E start \in 0..Len(file) - writer[w].n :
            \A j \in 1..writer[w].n : file[start + j] = writer[w].batch[j]

\* C15: at most one flush is writing to the output file at any time: for any
\* number of concurrent write_batch calls and any interleaving, the lines of
\* one flush are never interleaved with those of another, and the file ends
\* up holding exactly the union of the flushed records.
C15_OneFlushAtATime ==
    InWriterRun =>
        /\ Cardinality(Writing) <= 1
        /\ \A w \in Writers : Contiguous(w)
        /\ Len(file) = PriorLines + LinesWritten(NumWriters)
        /\ (\A w \in Writers : writer[w].pc = "done") =>
              \A w \in Writers : writer[w].n = Len(writer[w].batch)

\* One call is in the middle of its batch while two others wait for the lock.
C15_Witness ==
    /\ pc = "writers"
    /\ \E w \in Writers :
          /\ writer[w].pc = "writing"
          /\ writer[w].n > 0 /\ writer[w].n < Len(writer[w].batch)
          /\ \A v \in Writers \ {w} : writer[v].pc = "called"

\* C20: each flush is an atomic append of whole records: if the run is
\* interrupted at any point, in the middle of write_batch included, the file
\* holds, for every flush, all of its records or none of them, and the
\* records of earlier completed flushes are as they were.
C20_FlushIsAllOrNothing ==
    pc = "interrupted" =>
        /\ \A w \in Writers : writer[w].n \in {0, Len(writer[w].batch)}
        /\ \A w \in Writers : Contiguous(w)

----------------------------------------------------------------------------
(* The download run with its input and output failing: the listing read    *)
(* page by page, a page that fails, a write that fails.                     *)

PageSize == 2

\* The buckets of these runs.
FaultBuckets ==
    UNION {[1..n -> {NotJson, FetchError, OneRecord, TwoRecords}] : n \in 0..MaxKeys}

FaultInit == Init /\ store \in FaultBuckets

\* The .json keys among the listing positions a+1..b, in order.
RECURSIVE PageKeys(_, _)
PageKeys(a, b) ==
    IF b <= a THEN <<>>
    ELSE IF store[b].json THEN Append(PageKeys(a, b - 1), b) ELSE PageKeys(a, b - 1)

\* The listing that leaves the loop over the pages after the first page.
ListFirstPageOnly ==
    /\ pc = "list"
    /\ listed' = Min(listed + PageSize, Cardinality(Keys))
    /\ json_files' = json_files \o PageKeys(listed, listed')
    /\ i' = 0
    /\ pc' = "loop"
    /\ UNCHANGED <<store, file_exists, file, task, results, in_flight, fetches,
                   write_buffer, processed_count, error_count, errors,
                   summary, probe, file_lock, writer, args, filtered, commit>>

\* async for page in pages: one page is read and its .json keys appended
\* (lines 185-190); after the last page the batch loop starts (line 203).
ListPage ==
    /\ pc = "list"
    /\ listed' = Min(listed + PageSize, Cardinality(Keys))
    /\ json_files' = json_files \o PageKeys(listed, listed')
    /\ i' = 0
    /\ pc' = IF listed' = Cardinality(Keys) THEN "loop" ELSE "list"
    /\ UNCHANGED <<store, file_exists, file, task, results, in_flight, fetches,
                   write_buffer, processed_count, error_count, errors,
                   summary, probe, file_lock, writer, args, filtered, commit>>

\* The request for the next page raises: nothing in main catches it.
ListFails ==
    /\ pc = "list"
    /\ pc' = "list_error"
    /\ UNCHANGED <<store, file_exists, file, json_files, i, task, results,
                   in_flight, fetches, write_buffer, processed_count,
                   error_count, errors, summary, probe, listed, file_lock,
                   writer, args, filtered, commit>>

\* write_batch raises (open or f.write fails) after n lines of the buffer:
\* the exception leaves main at line 224, nothing catches it.
FlushFails ==
    /\ pc = "flush"
    /\ Len(write_buffer) >= write_batch_size
    /\ \E n \in 0..Len(write_buffer) - 1 :
          /\ file' = write_batch(file, SubSeq(write_buffer, 1, n))
          /\ file_exists' = (file_exists \/ n > 0)
    /\ pc' = "write_error"
    /\ UNCHANGED <<store, json_files, i, task, results, in_flight, fetches,
                   write_buffer, processed_count, error_count, errors,
                   summary, probe, listed, file_lock, writer, args, filtered, commit>>

\* The same at line 229, for what is left after the loop.
FinalFlushFails ==
    /\ pc = "loop"
    /\ i >= Len(json_files)
    /\ Len(write_buffer) > 0
    /\ \E n \in 0..Len(write_buffer) - 1 :
          /\ file' = write_batch(file, SubSeq(write_buffer, 1, n))
          /\ file_exists' = (file_exists \/ n > 0)
    /\ pc' = "write_error"
    /\ UNCHANGED <<store, json_files, i, task, results, in_flight, fetches,
                   write_buffer, processed_count, error_count, errors,
                   summary, probe, listed, file_lock, writer, args, filtered, commit>>

FaultNext ==
    \/ CheckExists
    \/ Prompt
    \/ ListPage
    \/ ListFails
    \/ Dispatch
    \/ \E k \in Keys : Acquire(k)
    \/ \E k \in Keys : Complete(k)
    \/ Collect
    \/ Flush
    \/ FlushFails
    \/ FinalFlush
    \/ FinalFlushFails
    \/ Summary

FaultSpec == FaultInit /\ [][FaultNext]_vars

----------------------------------------------------------------------------
(* Properties of the run with failures *)

NothingFetched == \A k \in Keys : fetches[k] = 0 /\ task[k] = "idle"

\* C17: if the write of a flush fails the run terminates: no further batch
\* is dispatched and no later flush attempted, what earlier flushes wrote
\* stays in the file, and the termination report identifies the records
\* those earlier flushes are confirmed to have written.
C17_WriteFailureIsReported ==
    pc = "write_error" =>
        /\ in_flight = 0
        /\ \A k \in Keys : task[k] \in {"idle", "done"}
        /\ summary # NoSummary
        /\ summary.printed

\* C18: no fetch is dispatched before the listing has completed over all
\* pages; if the listing fails on any page the run terminates with no key
\* fetched and nothing written to the output file.
C18_ListingComesFirst ==
    /\ [](/\ pc \in {"list", "list_error"} =>
                /\ NothingFetched
                /\ write_buffer = <<>>
                /\ file = <<>>
                /\ summary = NoSummary
          /\ ~NothingFetched =>
                /\ listed = Cardinality(Keys)
                /\ json_files = JsonKeys(Cardinality(Keys)))
    /\ [][pc # "list_error"]_vars

\* The listing has failed on its second page, with keys of the first page
\* already collected.
C18_Witness ==
    /\ pc = "list_error"
    /\ listed > 0
    /\ listed < Cardinality(Keys)
    /\ Len(json_files) > 0

----------------------------------------------------------------------------
(* filter_data: the filter pass over the lines of combined_data.jsonl *)

MaxLines == 2

\* A line that is not JSON: json.loads(line) raises.
MalformedLine == [t |-> "malformed"]

\* row.get(key, {}) followed by .get(sub): the value, None when the
\* sub-field is not there, an exception when the field is not a dict.
get_sub(row, key, sub) ==
    LET d == IF Has(row, key) THEN row.f[key] ELSE EmptyDict
    IN  IF d.t # "dict" THEN Raise
        ELSE IF Has(d, sub) THEN d.f[sub] ELSE JNull

\* The numeric value of a JSON number or boolean, in halves.
NumOf(v) ==
    CASE v.t = "int" -> 2 * v.i
      [] v.t = "float" -> v.h
      [] v.t = "bool" -> IF v.b THEN 2 ELSE 0

\* Python's == on two decoded values.
py_eq(a, b) ==
    IF a.t \in {"int", "float", "bool"} /\ b.t \in {"int", "float", "bool"}
    THEN NumOf(a) = NumOf(b)
    ELSE a = b

\* The score test of the filter without the test of filter_score.
score_match_always(filter_score, score) == TRUE

\* score_match (lines 300-302)
score_match(filter_score, score) ==
    \/ filter_score = "both"
    \/ filter_score = "0" /\ score = 0
    \/ filter_score = "1" /\ score = 1

\* The body of the loop for one line (lines 275-327): "skip" when the line
\* is left out (an exception, a refused score, a failed condition), or the
\* record written for it.
filter_line(line, a) ==
    IF line = MalformedLine \/ line.t # "dict" THEN [k |-> "skip"]
    ELSE LET env == get_sub(line, "challenge", "env")
             prompt == get_sub(line, "challenge", "prompt")
             resp == get_sub(line, "response", "response")
             model == get_sub(line, "miner", "model")
             uid == get_sub(line, "miner", "uid")
             score == get_sub(line, "evaluation", "score")
             evaluation_extra_json == get_sub(line, "evaluation", "extra_json")
         IN  IF Raise \in {env, resp, model, score} THEN [k |-> "skip"]
             ELSE IF ~score_is_valid(score) THEN [k |-> "skip"]
             ELSE IF /\ env # JNull
                     /\ prompt # JNull
                     /\ resp # JNull
                     /\ model # JNull
                     /\ score_match(a.score, int_of(score))
                     /\ (a.uid = JNull \/ py_eq(uid, a.uid))
                     /\ (a.model = JNull \/ py_eq(model, a.model))
             THEN [k |-> "emit",
                   rec |-> JDict([uid |-> uid, env |-> env, prompt |-> prompt,
                                  response |-> resp, model |-> model,
                                  score |-> JInt(int_of(score)),
                                  evaluation_extra_json |-> evaluation_extra_json])]
             ELSE [k |-> "skip"]

\* filter_data: the lines written to the output file, from line n on.
RECURSIVE filter_data(_, _, _)
filter_data(lines, n, a) ==
    IF n > Len(lines) THEN <<>>
    ELSE LET r == filter_line(lines[n], a)
         IN  (IF r.k = "emit" THEN <<r.rec>> ELSE <<>>) \o filter_data(lines, n + 1, a)

----------------------------------------------------------------------------
(* The script: the command line, main() and the filter pass (__main__) *)

\* A line of combined_data.jsonl as the filter reads it.
Row(mi, ch, re, ev) ==
    DictOf({<<"version", JInt(1)>>, <<"miner", mi>>, <<"challenge", ch>>,
            <<"response", re>>, <<"evaluation", ev>>})
FullMiner(uid, model) == DictOf({<<"uid", JInt(uid)>>, <<"model", model>>})
FullChallenge == DictOf({<<"env", JStr("env")>>, <<"prompt", JStr("prompt")>>})
FullResponse == DictOf({<<"response", JStr("response")>>})
ScoreOf(sc) == DictOf({<<"score", sc>>, <<"extra_json", JStr("{}")>>})

\* The lines the filter is given: records of the pipeline, records with a
\* field missing or null, scores of every kind, and lines that are not
\* records at all.
FilterLines ==
    {Row(FullMiner(1, JStr("model")), FullChallenge, FullResponse, ScoreOf(JInt(1))),
     Row(FullMiner(2, JStr("model")), FullChallenge, FullResponse, ScoreOf(JInt(0))),
     Row(FullMiner(1, JStr("other")), FullChallenge, FullResponse,
         DictOf({<<"score", JInt(1)>>})),
     Row(FullMiner(1, JStr("model")), DictOf({<<"env", JStr("env")>>}),
         FullResponse, ScoreOf(JInt(1))),
     Row(FullMiner(1, JNull), FullChallenge, FullResponse, ScoreOf(JInt(1))),
     Row(FullMiner(1, JStr("model")), FullChallenge, FullResponse, ScoreOf(JInt(2))),
     Row(FullMiner(1, JStr("model")), FullChallenge, FullResponse, JNull),
     Row(FullMiner(2, JStr("model")), FullChallenge, FullResponse, ScoreOf(JFloat(2))),
     Row(FullMiner(1, JStr("model")), JList(<<>>), FullResponse, ScoreOf(JInt(1))),
     Row(FullMiner(2, JStr("model")), FullChallenge, FullResponse, ScoreOf(JBool(TRUE))),
     Row(DictOf({<<"model", JStr("model")>>}), FullChallenge, FullResponse,
         ScoreOf(JInt(0))),
     MalformedLine,
     JInt(5)}
FilterInputs == UNION {[1..n -> FilterLines] : n \in 0..MaxLines}

\* The command lines: --filter, --uid, --model, --score (lines 334-339).
ArgSets ==
    [filter : BOOLEAN, uid : {JNull, JInt(1)}, model : {JNull, JStr("model")},
     score : {"0", "1", "both"}]

ScriptBuckets ==
    {<<>>, <<OneRecord, FetchError>>, <<TwoRecords, TwoRecords, OneRecord, TwoRecords>>}

ScriptInit ==
    /\ args \in ArgSets
    /\ store \in ScriptBuckets
    /\ file_exists \in BOOLEAN
    /\ file \in IF ~file_exists THEN {<<>>}
                ELSE IF args.filter THEN FilterInputs
                ELSE {<<PriorRecord>>}
    /\ pc = "__main__"
    /\ json_files = <<>>
    /\ i = 0
    /\ task = [k \in Keys |-> "idle"]
    /\ results = [k \in Keys |-> NoResult]
    /\ in_flight = 0
    /\ fetches = [k \in Keys |-> 0]
    /\ write_buffer = <<>>
    /\ processed_count = 0
    /\ error_count = 0
    /\ errors = <<>>
    /\ summary = NoSummary
    /\ probe = [step |-> "off"]
    /\ listed = 0
    /\ file_lock = FALSE
    /\ writer = <<>>
    /\ filtered = <<>>
    /\ commit = NoCommit

\* The entry point that downloads whatever the command line says.
EntryPointAlwaysDownload ==
    /\ pc = "__main__"
    /\ pc' = "start"
    /\ UNCHANGED <<store, file_exists, file, json_files, i, task, results,
                   in_flight, fetches, write_buffer, processed_count,
                   error_count, errors, summary, probe,
                   listed, file_lock, writer, args, filtered, commit>>

\* if args.filter and output_file.exists(): ... else: asyncio.run(main())
\* (lines 344-352)
EntryPoint ==
    /\ pc = "__main__"
    /\ pc' = IF args.filter /\ file_exists THEN "filter_only" ELSE "start"
    /\ UNCHANGED <<store, file_exists, file, json_files, i, task, results,
                   in_flight, fetches, write_buffer, processed_count,
                   error_count, errors, summary, probe,
                   listed, file_lock, writer, args, filtered, commit>>

\* filter_data(str(output_file), "filtered_data.jsonl", ...) on the file
\* that was found (lines 346-347).
FilterOnly ==
    /\ pc = "filter_only"
    /\ filtered' = filter_data(file, 1, args)
    /\ pc' = "exit"
    /\ UNCHANGED <<store, file_exists, file, json_files, i, task, results,
                   in_flight, fetches, write_buffer, processed_count,
                   error_count, errors, summary, probe,
                   listed, file_lock, writer, args, commit>>

\* After main() has returned: if args.filter: filter_data(...) (lines
\* 354-357). The filter opens the combined file first, and fails when there
\* is none.
AfterMain ==
    /\ pc \in {"done", "aborted"}
    /\ IF ~args.filter
       THEN pc' = "exit" /\ UNCHANGED filtered
       ELSE IF file_exists
       THEN pc' = "exit" /\ filtered' = filter_data(file, 1, args)
       ELSE pc' = "filter_failed" /\ UNCHANGED filtered
    /\ UNCHANGED <<store, file_exists, file, json_files, i, task, results,
                   in_flight, fetches, write_buffer, processed_count,
                   error_count, errors, summary, probe,
                   listed, file_lock, writer, args, commit>>

ScriptNext ==
    \/ EntryPoint
    \/ FilterOnly
    \/ Next
    \/ AfterMain

ScriptSpec == ScriptInit /\ [][ScriptNext]_vars

----------------------------------------------------------------------------
(* Properties of the filter pass and of the entry point *)

\* The field sub of the object under key of a line, as the data model reads
\* it: null when the line, the object or the field is not there.
Field(line, key, sub) ==
    IF line.t = "dict" /\ key \in DOMAIN line.f
    THEN IF line.f[key].t = "dict" /\ sub \in DOMAIN line.f[key].f
         THEN line.f[key].f[sub]
         ELSE JNull
    ELSE JNull

FourPresent(line) ==
    /\ Field(line, "challenge", "env") # JNull
    /\ Field(line, "challenge", "prompt") # JNull
    /\ Field(line, "response", "response") # JNull
    /\ Field(line, "miner", "model") # JNull

LineScore(line) == Field(line, "evaluation", "score")
ScoreIsOne(s) == s \in {JInt(1), JFloat(2), JBool(TRUE)}
ScoreIsZero(s) == s \in {JInt(0), JFloat(0), JBool(FALSE)}

\* The score predicate as stated: '0' and '1' keep that score, 'both' keeps
\* every line.
PassesScoreAsStated(line, a) ==
    \/ a.score = "both"
    \/ a.score = "0" /\ ScoreIsZero(LineScore(line))
    \/ a.score = "1" /\ ScoreIsOne(LineScore(line))

\* The score predicate with 'both' keeping the scores 0 and 1 only.
PassesScore(line, a) ==
    \/ a.score \in {"0", "both"} /\ ScoreIsZero(LineScore(line))
    \/ a.score \in {"1", "both"} /\ ScoreIsOne(LineScore(line))

PassesUid(line, a) == a.uid = JNull \/ Field(line, "miner", "uid") = a.uid
PassesModel(line, a) == a.model = JNull \/ Field(line, "miner", "model") = a.model

\* The projection of a line to the seven fields, the score as an integer.
Projected(line) ==
    JDict([uid |-> Field(line, "miner", "uid"),
           env |-> Field(line, "challenge", "env"),
           prompt |-> Field(line, "challenge", "prompt"),
           response |-> Field(line, "response", "response"),
           model |-> Field(line, "miner", "model"),
           score |-> IF ScoreIsOne(LineScore(line)) THEN JInt(1)
                     ELSE IF ScoreIsZero(LineScore(line)) THEN JInt(0)
                     ELSE LineScore(line),
           evaluation_extra_json |-> Field(line, "evaluation", "extra_json")])

ProjectAll(lines) == [n \in 1..Len(lines) |-> Projected(lines[n])]

KeptAsStated(lines, a) ==
    LET Keep(l) == /\ FourPresent(l) /\ PassesScoreAsStated(l, a)
                   /\ PassesUid(l, a) /\ PassesModel(l, a)
    IN  ProjectAll(SelectSeq(lines, Keep))

Kept(lines, a) ==
    LET Keep(l) == /\ FourPresent(l) /\ PassesScore(l, a)
                   /\ PassesUid(l, a) /\ PassesModel(l, a)
    IN  ProjectAll(SelectSeq(lines, Keep))

WithoutMalformed(lines) ==
    LET Parses(l) == l # MalformedLine
    IN  SelectSeq(lines, Parses)

\* The filter pass has run to its end.
FilterRan == pc = "exit" /\ args.filter

pipeline_vars ==
    <<store, file_exists, file, json_files, i, task, results, in_flight,
      fetches, write_buffer, processed_count, error_count, errors, summary,
      listed>>

\* C22: run with --filter while the combined file exists, the script goes
\* from its entry point to the filter pass and from there to its exit and
\* nowhere else: no prompt, no listing, no fetch, the combined file
\* unchanged, and the filter pass run over that file.
C22_FilterOnlyWhenFileExists ==
    [][/\ (pc = "__main__" /\ args.filter /\ file_exists) =>
              (pc' = "filter_only" /\ UNCHANGED pipeline_vars)
       /\ pc = "filter_only" =>
              /\ pc' = "exit"
              /\ UNCHANGED pipeline_vars
              /\ NothingDone
              /\ filtered' = Kept(file, args)
       /\ pc # "exit"]_vars

C22_Witness ==
    /\ pc = "exit" /\ args.filter /\ file_exists
    /\ NothingDone
    /\ store # <<>>
    /\ filtered # <<>>

----------------------------------------------------------------------------
(* commit_to_chain (commit_on_chain.py): the submission with its retries *)

\* The number of times the chain answers SpaceLimitExceeded before the
\* quota error stops recurring.
MaxQuotaErrors == 3

NETUID == 120

\* chute_id: None, the empty string, or an identifier.
ChuteIds == {"None", "", "chute"}
Networks == {"None", "finney", "test"}

\* What awaiting set_reveal_commitment can end with: its return, or one of
\* the exceptions the handlers tell apart.
SubmitOutcomes ==
    {"ok", "SpaceLimitExceeded", "MetadataError", "SubstrateRequestException",
     "Exception"}

other_vars ==
    <<store, file_exists, file, pc, json_files, i, task, results, in_flight,
      fetches, write_buffer, processed_count, error_count, errors, summary,
      probe, listed, file_lock, writer, args, filtered>>

CommitInit ==
    /\ \E chute_id \in ChuteIds, network \in Networks, quota \in 0..MaxQuotaErrors :
          commit = [pc |-> "called", chute_id |-> chute_id, network |-> network,
                    netuid |-> NETUID, quota |-> quota, contacted |-> FALSE,
                    submissions |-> 0, successes |-> 0, waits |-> 0,
                    last |-> "none", error |-> "none"]
    /\ pc = "commit"
    /\ store = <<>>
    /\ file_exists = FALSE
    /\ file = <<>>
    /\ json_files = <<>>
    /\ i = 0
    /\ task = <<>>
    /\ results = <<>>
    /\ in_flight = 0
    /\ fetches = <<>>
    /\ write_buffer = <<>>
    /\ processed_count = 0
    /\ error_count = 0
    /\ errors = <<>>
    /\ summary = NoSummary
    /\ probe = [step |-> "off"]
    /\ listed = 0
    /\ file_lock = FALSE
    /\ writer = <<>>
    /\ args = NoArgs
    /\ filtered = <<>>

\* if not chute_id: raise ValueError (lines 43-44)
CheckChuteId ==
    /\ commit.pc = "called"
    /\ commit' = IF commit.chute_id \in {"None", ""}
                 THEN [commit EXCEPT !.pc = "raised", !.error = "ValueError"]
                 ELSE [commit EXCEPT !.pc = "connect"]
    /\ UNCHANGED other_vars

\* sub = await get_subtensor(network) (line 47): the first contact with
\* the chain; an exception of it leaves the call.
GetSubtensor ==
    /\ commit.pc = "connect"
    /\ \E outcome \in {"ok", "Exception"} :
          commit' = IF outcome = "ok"
                    THEN [commit EXCEPT !.pc = "submit", !.contacted = TRUE]
                    ELSE [commit EXCEPT !.pc = "raised", !.contacted = TRUE,
                                        !.error = outcome]
    /\ UNCHANGED other_vars

\* The loop with every MetadataError taken for a quota error.
SubmitRetryOnAnyMetadataError ==
    /\ commit.pc = "submit"
    /\ \E outcome \in SubmitOutcomes :
          /\ outcome = "SpaceLimitExceeded" => commit.quota > 0
          /\ commit' =
                CASE outcome = "ok" ->
                        [commit EXCEPT !.pc = "returned", !.last = outcome,
                                       !.submissions = @ + 1, !.successes = @ + 1]
                  [] outcome = "SpaceLimitExceeded" ->
                        [commit EXCEPT !.pc = "wait", !.last = outcome,
                                       !.submissions = @ + 1, !.quota = @ - 1]
                  [] outcome = "MetadataError" ->
                        [commit EXCEPT !.pc = "wait", !.last = outcome,
                                       !.submissions = @ + 1]
                  [] OTHER ->
                        [commit EXCEPT !.pc = "raised", !.last = outcome,
                                       !.submissions = @ + 1, !.error = outcome]
    /\ UNCHANGED other_vars

\* One turn of while True (lines 56-78): await set_reveal_commitment, then
\* break, or the handler of the exception it raised.
Submit ==
    /\ commit.pc = "submit"
    /\ \E outcome \in SubmitOutcomes :
          /\ outcome = "SpaceLimitExceeded" => commit.quota > 0
          /\ commit' =
                CASE outcome = "ok" ->
                        [commit EXCEPT !.pc = "returned", !.last = outcome,
                                       !.submissions = @ + 1, !.successes = @ + 1]
                  [] outcome = "SpaceLimitExceeded" ->
                        [commit EXCEPT !.pc = "wait", !.last = outcome,
                                       !.submissions = @ + 1, !.quota = @ - 1]
                  [] OTHER ->
                        [commit EXCEPT !.pc = "raised", !.last = outcome,
                                       !.submissions = @ + 1, !.error = outcome]
    /\ UNCHANGED other_vars

\* await sub.wait_for_block() in the handler (line 70): the next block, or
\* an exception, which leaves the call from inside the handler.
WaitForBlock ==
    /\ commit.pc = "wait"
    /\ \E outcome \in {"ok", "Exception"} :
          commit' = IF outcome = "ok"
                    THEN [commit EXCEPT !.pc = "submit", !.waits = @ + 1]
                    ELSE [commit EXCEPT !.pc = "raised", !.error = outcome]
    /\ UNCHANGED other_vars

CommitNext ==
    \/ CheckChuteId
    \/ GetSubtensor
    \/ Submit
    \/ WaitForBlock

\* Every awaited call of the coroutine completes, by returning or raising.
CommitSpec == CommitInit /\ [][CommitNext]_vars /\ WF_vars(CommitNext)

----------------------------------------------------------------------------
(* Properties of commit_to_chain *)

CommitEnded == commit.pc \in {"returned", "raised"}

\* C26: commit_to_chain submits again only after a submission that failed
\* with SpaceLimitExceeded and a wait of one block; any other error ends
\* the call with no further submission; the call returns normally only
\* after exactly one successful submission; a missing chute_id is rejected
\* before the chain is contacted; and with the quota error recurring
\* finitely often the call eventually ends.
C26_RetriesOnlyOnQuotaErrors ==
    /\ [](commit.pc = "returned" =>
             /\ commit.successes = 1
             /\ commit.last = "ok"
             /\ commit.waits = commit.submissions - 1)
    /\ [](commit.chute_id \in {"None", ""} =>
             /\ ~commit.contacted
             /\ commit.submissions = 0
             /\ commit.pc \in {"called", "raised"})
    /\ [][/\ ~CommitEnded
          /\ commit'.submissions > commit.submissions =>
                /\ commit'.submissions = commit.submissions + 1
                /\ commit.submissions > 0 =>
                      /\ commit.last = "SpaceLimitExceeded"
                      /\ commit.waits = commit.submissions
                /\ commit'.last \notin {"ok", "SpaceLimitExceeded"} =>
                      commit'.pc = "raised"
                /\ commit'.last = "SpaceLimitExceeded" => commit'.pc = "wait"
          /\ commit'.waits > commit.waits =>
                /\ commit.pc = "wait"
                /\ commit'.waits = commit.waits + 1
                /\ commit'.pc = "submit"]_vars
    /\ <>CommitEnded

C26_Witness ==
    /\ commit.pc = "returned"
    /\ commit.submissions = 3
    /\ commit.waits = 2

====
